---------------------------- MODULE Spec2Model ----------------------------
(***************************************************************************)
(* NBA player prop model v2: the probabilistic evaluation and selection    *)
(* engine (math_helpers.py, run_simulations_v2.py, build_portfolio_v2.py). *)
(*                                                                         *)
(* Python floats are modelled as exact rationals <<n, d>> in lowest terms  *)
(* with d > 0.  Two values with d = 0 stand for what a float computation   *)
(* can yield besides a number: NaN (the "unknown" sentinel, numpy.nan) and *)
(* Raised (the evaluation raised an exception instead of returning).       *)
(***************************************************************************)
EXTENDS Integers, Sequences, FiniteSets, TLC

VARIABLES
    pc,          \* where the run is: which call or pipeline stage comes next
    m_odds,      \* SpecMath: the American odds the market converter is called with
    m_calls,     \* SpecMath: the calls made so far, each with its argument and result
    e_call,      \* SpecEst: the arguments of a direct call of an estimator
    e_out,       \* SpecEst: what the call returned
    df_features, \* run_simulations_v2: the input batch, one feature row per prop
    rows,        \* run_simulations_v2: the output rows built so far
    sim_log,     \* run_simulations_v2: per output row, the estimator call it made
    df,          \* build_portfolio_v2: the evaluated batch
    cols,        \* build_portfolio_v2: which optional columns the batch has
    out,         \* filter_props_v2: df[mask], the rows that passed the thresholds
    filtered,    \* filter_props_v2: its return value, after deduplication
    final,       \* pick_card_v2: its return value
    skip_fetch,  \* run_pipeline_v2: the --skip-fetch flag
    present,     \* run_pipeline_v2: the step scripts that exist on disk
    started,     \* run_pipeline_v2: the names of the steps started so far, in order
    exits,       \* run_pipeline_v2: the exit codes of the steps that have exited
    ret          \* run_pipeline_v2: what main returned, -1 while it has not

estVars == <<e_call, e_out>>

mathVars == <<m_odds, m_calls>>

simVars == <<df_features, rows, sim_log>>

cardVars == <<df, cols, out, filtered, final>>

pipeVars == <<skip_fetch, present, started, exits, ret>>

vars == <<pc, m_odds, m_calls, e_call, e_out, df_features, rows, sim_log, df, cols, out,
          filtered, final, skip_fetch, present, started, exits, ret>>

-----------------------------------------------------------------------------
(* Float values: exact rationals, NaN, and a raised exception.             *)

NaN == <<0, 0>>

Raised == <<1, 0>>

IsNaN(x) == x = NaN

IsRaised(x) == x = Raised

IsNum(x) == x[2] > 0

Abs(i) == IF i < 0 THEN -i ELSE i

\* Euclid's algorithm, on naturals.
Euclid[a \in Nat, b \in Nat] == IF b = 0 THEN a ELSE Euclid[b, a % b]

GCD(a, b) == Euclid[a, b]

\* <<n, d>> with d # 0, in lowest terms with a positive denominator.
Norm(n, d) ==
    LET g == GCD(Abs(n), Abs(d))
        s == IF d < 0 THEN -1 ELSE 1
    IN  <<(s * n) \div g, (s * d) \div g>>

Rat(n, d) == Norm(n, d)

Int2Rat(i) == <<i, 1>>

\* A raised exception propagates through every operation; NaN through arithmetic.
Lift2(x, y, v) ==
    IF IsRaised(x) \/ IsRaised(y) THEN Raised
    ELSE IF IsNaN(x) \/ IsNaN(y) THEN NaN
    ELSE v

Add(x, y) == Lift2(x, y, Norm(x[1] * y[2] + y[1] * x[2], x[2] * y[2]))

Neg(x) == IF IsNum(x) THEN <<-x[1], x[2]>> ELSE x

Sub(x, y) == Add(x, Neg(y))

Mul(x, y) == Lift2(x, y, Norm(x[1] * y[1], x[2] * y[2]))

\* Python float division: a zero divisor raises ZeroDivisionError.
Div(x, y) ==
    IF IsNum(x) /\ IsNum(y) /\ y[1] = 0 THEN Raised
    ELSE Lift2(x, y, Norm(x[1] * y[2], x[2] * y[1]))

\* Comparisons: any comparison with NaN is False.
Lt(x, y) == IsNum(x) /\ IsNum(y) /\ x[1] * y[2] < y[1] * x[2]

Le(x, y) == IsNum(x) /\ IsNum(y) /\ x[1] * y[2] <= y[1] * x[2]

Gt(x, y) == Lt(y, x)

Ge(x, y) == Le(y, x)

Zero == Int2Rat(0)

One == Int2Rat(1)

Hundred == Int2Rat(100)

-----------------------------------------------------------------------------
(* utils/math_helpers.py                                                   *)

\* Mutant: the favourite branch forgets to negate the numerator.
american_to_implied_prob_unsigned(odds) ==
    IF IsNaN(odds) THEN NaN
    ELSE IF Gt(odds, Zero) THEN Div(Hundred, Add(odds, Hundred))
    ELSE Div(odds, Add(Neg(odds), Hundred))

american_to_implied_prob(odds) ==
    IF IsNaN(odds) THEN NaN
    ELSE IF Gt(odds, Zero) THEN Div(Hundred, Add(odds, Hundred))
    ELSE Div(Neg(odds), Add(Neg(odds), Hundred))

\* Mutant: the favourite's payout is taken as -odds/100 instead of 100/-odds.
payout_per_unit_inverted(odds) ==
    IF Gt(odds, Zero) THEN Mul(One, Div(odds, Hundred))
    ELSE Mul(One, Div(Neg(odds), Hundred))

\* The payout per unit staked (stake = 1.0).
payout_per_unit(odds) ==
    IF Gt(odds, Zero) THEN Mul(One, Div(odds, Hundred))
    ELSE Mul(One, Div(Hundred, Neg(odds)))

expected_value_per_unit(odds, win_prob) ==
    IF IsNaN(odds) \/ IsNaN(win_prob) THEN NaN
    ELSE LET payout == payout_per_unit(odds)
             lose_prob == Sub(One, win_prob)
         IN  Sub(Mul(win_prob, payout), Mul(lose_prob, One))

-----------------------------------------------------------------------------
(* simulations_v2/run_simulations_v2.py: the Monte Carlo estimators.       *)
(* The random draws are an argument: a sequence of n_sims sample values.   *)

\* Python's None, as returned by nb_params_from_mean_var.
None == <<2, 0>>

NotCalled == <<3, 0>>

adjust_mean(base_mean, pace_factor, defense_factor) ==
    IF IsNaN(base_mean) THEN NaN
    ELSE Mul(Mul(base_mean, pace_factor), defense_factor)

\* Mutant: the over-dispersion test is var < mean instead of var <= mean.
nb_params_from_mean_var_strict(mean, var) ==
    IF Le(mean, Zero) \/ Lt(var, mean) THEN [n |-> None, p |-> None]
    ELSE [n |-> Div(Mul(mean, mean), Sub(var, mean)), p |-> Div(mean, var)]

nb_params_from_mean_var(mean, var) ==
    IF Le(mean, Zero) \/ Le(var, mean) THEN [n |-> None, p |-> None]
    ELSE [n |-> Div(Mul(mean, mean), Sub(var, mean)), p |-> Div(mean, var)]

\* (samples > line).mean() and (samples < line).mean(): the mean of a 0/1 vector.
RECURSIVE CountTrue(_)
CountTrue(bools) ==
    IF bools = <<>> THEN 0
    ELSE (IF Head(bools) THEN 1 ELSE 0) + CountTrue(Tail(bools))

BoolMean(bools) == Rat(CountTrue(bools), Len(bools))

\* np.clip(samples, 0, None): NaN stays NaN.
Clip0(samples) ==
    [i \in 1..Len(samples) |-> IF Lt(samples[i], Zero) THEN Zero ELSE samples[i]]

TailProbs(samples, line) ==
    [prob_over  |-> BoolMean([i \in 1..Len(samples) |-> Gt(samples[i], line)]),
     prob_under |-> BoolMean([i \in 1..Len(samples) |-> Lt(samples[i], line)])]

Unknown(params) ==
    [prob_over |-> NaN, prob_under |-> NaN, dist |-> "none", lam |-> NaN,
     params |-> params, samples |-> <<>>]

Sampled(dist, lam, params, samples, line) ==
    [prob_over |-> TailProbs(samples, line).prob_over,
     prob_under |-> TailProbs(samples, line).prob_under,
     dist |-> dist, lam |-> lam, params |-> params, samples |-> samples]

\* np.random.normal(loc, scale): a NaN scale passes numpy's "scale < 0" check and
\* every sample is NaN.
normal_samples(mean, std, draws) ==
    IF IsNaN(std) THEN [i \in 1..Len(draws) |-> NaN] ELSE draws

simulate_points_normal(mean, std, line, draws) ==
    IF IsNaN(mean) \/ IsNaN(line) \/ Le(mean, Zero) \/ Le(std, Zero)
    THEN Unknown([n |-> NotCalled, p |-> NotCalled])
    ELSE Sampled("normal", mean, [n |-> NotCalled, p |-> NotCalled],
                 Clip0(normal_samples(mean, std, draws)), line)

poisson_from(mean, line, draws, params) ==
    IF IsNaN(mean) \/ IsNaN(line) \/ Le(mean, Zero)
    THEN Unknown(params)
    ELSE Sampled("poisson", mean, params, draws, line)

simulate_poisson(mean, line, draws) ==
    poisson_from(mean, line, draws, [n |-> NotCalled, p |-> NotCalled])

\* np.random.negative_binomial(n, p): numpy rejects a NaN p with ValueError.
negative_binomial_raises(n, p) == IsNaN(n) \/ IsNaN(p)

simulate_nb_or_poisson(mean, var, line, draws) ==
    IF IsNaN(mean) \/ IsNaN(line) \/ Le(mean, Zero)
    THEN Unknown([n |-> NotCalled, p |-> NotCalled])
    ELSE LET np == nb_params_from_mean_var(mean, var)
         IN  IF np.n = None \/ np.p = None \/ Le(np.p, Zero) \/ Ge(np.p, One)
             THEN poisson_from(mean, line, draws, np)
             ELSE IF negative_binomial_raises(np.n, np.p)
             THEN [prob_over |-> Raised, prob_under |-> Raised,
                   dist |-> "negative_binomial", lam |-> mean, params |-> np,
                   samples |-> <<>>]
             ELSE Sampled("negative_binomial", mean, np, Clip0(draws), line)

-----------------------------------------------------------------------------
(* simulations_v2/run_simulations_v2.py: the per-prop evaluation.          *)

\* str(market).lower(), on the market strings of the model.
Lower(str) == IF str = "Points" THEN "points" ELSE str

\* np.sqrt to one decimal place, rounded down but never to 0 for a positive
\* argument; NaN for NaN and for a negative argument.
Sqrt(x) ==
    IF ~IsNum(x) THEN x
    ELSE IF x[1] < 0 THEN NaN
    ELSE LET k == x[1] * x[2] * 100
             r == CHOOSE q \in 0..(k + 1) : q * q <= k /\ (q + 1) * (q + 1) > k
         IN  Rat(r, x[2] * 10)

\* Mutant: a market without a baseline falls back to the points statistics.
base_stats_default_points(row) ==
    LET market == Lower(row.market)
    IN  IF market = "assists"
        THEN [mean |-> row.ast_last10_mean, std |-> row.ast_last10_std]
        ELSE IF market = "rebounds"
        THEN [mean |-> row.reb_last10_mean, std |-> row.reb_last10_std]
        ELSE IF market \in {"threes_made", "three-pointers-made", "threes"}
        THEN [mean |-> row.fg3_last10_mean, std |-> row.fg3_last10_std]
        ELSE [mean |-> row.pts_last10_mean, std |-> row.pts_last10_std]

base_stats(row) ==
    LET market == Lower(row.market)
    IN  IF market = "points"
        THEN [mean |-> row.pts_last10_mean, std |-> row.pts_last10_std]
        ELSE IF market = "assists"
        THEN [mean |-> row.ast_last10_mean, std |-> row.ast_last10_std]
        ELSE IF market = "rebounds"
        THEN [mean |-> row.reb_last10_mean, std |-> row.reb_last10_std]
        ELSE IF market \in {"threes_made", "three-pointers-made", "threes"}
        THEN [mean |-> row.fg3_last10_mean, std |-> row.fg3_last10_std]
        ELSE [mean |-> NaN, std |-> NaN]

get_adjusted_mean_and_var(row) ==
    LET base == base_stats(row)
    IN  [mean |-> adjust_mean(base.mean, row.pace_factor, row.defense_factor),
         var  |-> IF IsNaN(base.std) THEN NaN
                  ELSE Mul(Mul(base.std, base.std),
                           Mul(row.pace_factor, row.defense_factor))]

\* Mutant: the variance is handed to the estimators as it is, unknown or not.
run_estimator_raw_var(row, mean, var, draws) ==
    IF IsNaN(mean) \/ IsNaN(row.line)
    THEN Unknown([n |-> NotCalled, p |-> NotCalled])
    ELSE IF row.market = "points"
    THEN simulate_points_normal(mean, Sqrt(var), row.line, draws)
    ELSE IF row.market = "assists" \/ row.market = "rebounds"
    THEN simulate_nb_or_poisson(mean, var, row.line, draws)
    ELSE simulate_poisson(mean, row.line, draws)

\* Lines 111-127: the estimator run for the row, on the given draws.
run_estimator(row, mean, var, draws) ==
    IF IsNaN(mean) \/ IsNaN(row.line)
    THEN Unknown([n |-> NotCalled, p |-> NotCalled])
    ELSE IF row.market = "points"
    THEN simulate_points_normal(mean,
             IF var # Zero /\ ~IsNaN(var) /\ Gt(var, Zero) THEN Sqrt(var) ELSE Sqrt(mean),
             row.line, draws)
    ELSE IF row.market = "assists" \/ row.market = "rebounds"
    THEN simulate_nb_or_poisson(mean,
             IF IsNaN(var) \/ Le(var, Zero) THEN Add(mean, One) ELSE var,
             row.line, draws)
    ELSE simulate_poisson(mean, row.line, draws)

\* Mutant: the side test is inverted.
model_prob_of_inverted(row, est) ==
    IF row.side = "over" THEN est.prob_under ELSE est.prob_over

model_prob_of(row, est) ==
    IF row.side = "over" THEN est.prob_over ELSE est.prob_under

edge_of(model_prob, implied_prob) ==
    IF ~IsNaN(model_prob) /\ ~IsNaN(implied_prob) THEN Sub(model_prob, implied_prob)
    ELSE NaN

\* Mutant: the expected value is computed from the zero-filled probability.
ev_of_zero_filled(odds, model_prob) ==
    expected_value_per_unit(odds, IF IsNaN(model_prob) THEN Zero ELSE model_prob)

ev_of(odds, model_prob) ==
    IF ~IsNaN(model_prob) THEN expected_value_per_unit(odds, model_prob) ELSE NaN

RatAbs(x) == IF IsNum(x) /\ x[1] < 0 THEN Neg(x) ELSE x

\* Python's min(a, 1.0).
MinWithOne(a) == IF Lt(One, a) THEN One ELSE a

\* Mutant: the edge component is the signed edge.
confidence_of_signed_edge(model_prob, edge, min10) ==
    LET prob_component == IF ~IsNaN(model_prob) THEN model_prob ELSE Zero
        edge_component == IF ~IsNaN(edge) THEN edge ELSE Zero
        minutes_component ==
            IF ~IsNaN(min10) THEN MinWithOne(Div(min10, Int2Rat(36))) ELSE Zero
    IN  Div(Add(Add(prob_component, edge_component), minutes_component), Int2Rat(3))

confidence_of(model_prob, edge, min10) ==
    LET prob_component == IF ~IsNaN(model_prob) THEN model_prob ELSE Zero
        edge_component == IF ~IsNaN(edge) THEN RatAbs(edge) ELSE Zero
        minutes_component ==
            IF ~IsNaN(min10) THEN MinWithOne(Div(min10, Int2Rat(36))) ELSE Zero
    IN  Div(Add(Add(prob_component, edge_component), minutes_component), Int2Rat(3))

\* One iteration of the loop: the output row for a feature row.
simulate_row(row, draws, n_sims, index) ==
    LET mv == get_adjusted_mean_and_var(row)
        est == run_estimator(row, mv.mean, mv.var, draws)
        model_prob == IF IsNaN(mv.mean) \/ IsNaN(row.line) THEN NaN
                      ELSE model_prob_of(row, est)
        implied_prob == american_to_implied_prob(row.odds)
        edge == edge_of(model_prob, implied_prob)
        ev == ev_of(row.odds, model_prob)
    IN  [player_name |-> row.player_name, market |-> row.market, side |-> row.side,
         line |-> row.line, odds |-> row.odds,
         pts_last10_mean |-> row.pts_last10_mean, pts_last10_std |-> row.pts_last10_std,
         ast_last10_mean |-> row.ast_last10_mean, ast_last10_std |-> row.ast_last10_std,
         reb_last10_mean |-> row.reb_last10_mean, reb_last10_std |-> row.reb_last10_std,
         fg3_last10_mean |-> row.fg3_last10_mean, fg3_last10_std |-> row.fg3_last10_std,
         pace_factor |-> row.pace_factor, defense_factor |-> row.defense_factor,
         min_last10_mean |-> row.min_last10_mean,
         adj_mean |-> mv.mean, adj_var |-> mv.var, model_prob |-> model_prob,
         implied_prob |-> implied_prob, edge |-> edge, ev_per_unit |-> ev,
         confidence |-> confidence_of(model_prob, edge, row.min_last10_mean),
         n_sims |-> n_sims, idx |-> index]

\* An exception raised while the row was evaluated leaves the loop.
RowRaised(outrow) ==
    \E v \in {outrow.model_prob, outrow.implied_prob, outrow.edge,
               outrow.ev_per_unit, outrow.confidence} : IsRaised(v)

-----------------------------------------------------------------------------
(* selection_v2/build_portfolio_v2.py                                      *)
(* A DataFrame is a sequence of rows; a row is a record of its cells plus  *)
(* idx, its index label.                                                   *)

MIN_PROB_V2 == Rat(55, 100)

MIN_EDGE_V2 == Rat(3, 100)

MIN_EV_V2 == Rat(2, 100)

MIN_CONF_V2 == Rat(5, 10)

MIN_MINUTES_V2 == Int2Rat(15)

\* The strings that occur as sort keys, in the order Python compares them.
StrOrder ==
    <<"A", "B", "C", "D", "E", "F", "G", "H", "I", "J", "K", "L", "M", "N", "O",
      "P", "Q", "R", "S", "T", "U", "V", "W", "X", "Y", "Z", "Za", "Zb", "Zc",
      "Zd", "Ze", "Zf",
      "Points", "assists", "over", "points", "push", "rebounds", "steals",
      "threes", "under">>

StrRank(str) == CHOOSE i \in 1..Len(StrOrder) : StrOrder[i] = str

\* df.get(column, 0): the column's cell, or the scalar 0 when the frame has no
\* such column.
GetConfidence(row, columns) == IF columns.confidence THEN row.confidence ELSE Zero

GetMinutes(row, columns) ==
    IF columns.min_last10_mean THEN row.min_last10_mean ELSE Zero

\* Mutant: model_prob must exceed its threshold strictly.
Mask_strict(row, columns) ==
    /\ Gt(row.model_prob, MIN_PROB_V2)
    /\ Ge(row.edge, MIN_EDGE_V2)
    /\ Ge(row.ev_per_unit, MIN_EV_V2)
    /\ Ge(GetConfidence(row, columns), MIN_CONF_V2)
    /\ Ge(GetMinutes(row, columns), MIN_MINUTES_V2)

Mask(row, columns) ==
    /\ Ge(row.model_prob, MIN_PROB_V2)
    /\ Ge(row.edge, MIN_EDGE_V2)
    /\ Ge(row.ev_per_unit, MIN_EV_V2)
    /\ Ge(GetConfidence(row, columns), MIN_CONF_V2)
    /\ Ge(GetMinutes(row, columns), MIN_MINUTES_V2)

\* Descending order of one numeric sort key, NaN last.
NumBefore(x, y) == Gt(x, y) \/ (IsNum(x) /\ IsNaN(y))

SameKey(a, b) ==
    /\ a.player_name = b.player_name
    /\ a.market = b.market
    /\ a.side = b.side

\* Mutant: the deduplication sort leaves ev_per_unit out of its keys.
DedupBefore_no_ev(a, b) ==
    \/ StrRank(a.player_name) > StrRank(b.player_name)
    \/ /\ a.player_name = b.player_name
       /\ \/ StrRank(a.market) > StrRank(b.market)
          \/ /\ a.market = b.market
             /\ StrRank(a.side) > StrRank(b.side)

\* sort_values(["player_name", "market", "side", "ev_per_unit"], ascending=False):
\* a strictly precedes b.
DedupBefore(a, b) ==
    \/ StrRank(a.player_name) > StrRank(b.player_name)
    \/ /\ a.player_name = b.player_name
       /\ \/ StrRank(a.market) > StrRank(b.market)
          \/ /\ a.market = b.market
             /\ \/ StrRank(a.side) > StrRank(b.side)
                \/ /\ a.side = b.side
                   /\ NumBefore(a.ev_per_unit, b.ev_per_unit)

\* sort_values(["confidence", "ev_per_unit"], ascending=False): a strictly
\* precedes b.
CardBefore(a, b) ==
    \/ NumBefore(a.confidence, b.confidence)
    \/ /\ a.confidence = b.confidence
       /\ NumBefore(a.ev_per_unit, b.ev_per_unit)

\* The two orders the module sorts by.
Before(order, a, b) ==
    IF order = "dedup" THEN DedupBefore(a, b) ELSE CardBefore(a, b)

\* A multi-key sort_values is a stable sort: rows that tie keep their order.
RECURSIVE InsertRow(_, _, _)
InsertRow(row, sorted, order) ==
    IF sorted = <<>> THEN <<row>>
    ELSE IF Before(order, row, Head(sorted)) THEN <<row>> \o sorted
    ELSE <<Head(sorted)>> \o InsertRow(row, Tail(sorted), order)

RECURSIVE SortValues(_, _)
SortValues(frame, order) ==
    IF frame = <<>> THEN <<>>
    ELSE InsertRow(frame[Len(frame)],
                   SortValues(SubSeq(frame, 1, Len(frame) - 1), order), order)

\* drop_duplicates(subset=["player_name", "market", "side"], keep="first").
RECURSIVE DropDuplicates(_, _)
DropDuplicates(frame, kept) ==
    IF frame = <<>> THEN kept
    ELSE IF \E k \in 1..Len(kept) : SameKey(kept[k], Head(frame))
         THEN DropDuplicates(Tail(frame), kept)
         ELSE DropDuplicates(Tail(frame), Append(kept, Head(frame)))

\* df[mask]
RECURSIVE filter_mask(_, _)
filter_mask(frame, columns) ==
    IF frame = <<>> THEN <<>>
    ELSE (IF Mask(Head(frame), columns) THEN <<Head(frame)>> ELSE <<>>)
             \o filter_mask(Tail(frame), columns)

filter_props_v2(frame, columns) ==
    DropDuplicates(SortValues(filter_mask(frame, columns), "dedup"), <<>>)

\* Mutant: the side is not tested.
SideRows_any(frame, side) == frame

\* df[df["side"] == side]
RECURSIVE SideRows(_, _)
SideRows(frame, side) ==
    IF frame = <<>> THEN <<>>
    ELSE (IF Head(frame).side = side THEN <<Head(frame)>> ELSE <<>>)
             \o SideRows(Tail(frame), side)

HeadRows(frame, n) == SubSeq(frame, 1, IF Len(frame) < n THEN Len(frame) ELSE n)

\* Mutant: the fallback count replaces the cap.
selected_overs_fallback(overs) == HeadRows(overs, 10)

selected_overs(overs) ==
    IF Len(HeadRows(overs, 12)) < 10 THEN HeadRows(overs, 10) ELSE HeadRows(overs, 12)

selected_unders(unders) ==
    IF Len(HeadRows(unders, 6)) < 3 THEN HeadRows(unders, 3) ELSE HeadRows(unders, 6)

\* Mutant: the concatenation is returned without the final sort.
pick_card_v2_concat(frame) ==
    LET overs == SortValues(SideRows(frame, "over"), "card")
        unders == SortValues(SideRows(frame, "under"), "card")
    IN  selected_overs(overs) \o selected_unders(unders)

pick_card_v2(frame) ==
    LET overs == SortValues(SideRows(frame, "over"), "card")
        unders == SortValues(SideRows(frame, "under"), "card")
    IN  SortValues(selected_overs(overs) \o selected_unders(unders), "card")

\* build_portfolio_v2.py __main__: filtered = filter_props_v2(df_sims_v2).
FilterProps ==
    /\ pc = "loaded"
    /\ out' = filter_mask(df, cols)
    /\ filtered' = filter_props_v2(df, cols)
    /\ pc' = "filtered"
    /\ UNCHANGED <<df, cols, final, mathVars, estVars, simVars, pipeVars>>

\* final_card_v2 = pick_card_v2(filtered); sorting by a column the frame does not
\* have raises KeyError.
PickCard ==
    /\ pc = "filtered"
    /\ IF cols.confidence
       THEN final' = pick_card_v2(filtered) /\ pc' = "picked"
       ELSE final' = <<>> /\ pc' = "raised"
    /\ UNCHANGED <<df, cols, out, filtered, mathVars, estVars, simVars, pipeVars>>

-----------------------------------------------------------------------------
(* The variables a specification does not use keep these values.           *)

MathIdle == m_odds = NaN /\ m_calls = <<>>

EstIdle ==
    /\ e_call = [fn |-> "none", mean |-> NaN, spread |-> NaN, line |-> NaN]
    /\ e_out = Unknown([n |-> NotCalled, p |-> NotCalled])

SimIdle == df_features = <<>> /\ rows = <<>> /\ sim_log = <<>>

PipeIdle ==
    /\ skip_fetch = FALSE
    /\ present = {}
    /\ started = <<>>
    /\ exits = <<>>
    /\ ret = -1

CardIdle ==
    /\ df = <<>>
    /\ cols = [confidence |-> TRUE, min_last10_mean |-> TRUE]
    /\ out = <<>>
    /\ filtered = <<>>
    /\ final = <<>>

-----------------------------------------------------------------------------
(* SpecEst: each estimator called directly on bounded arguments and draws. *)

NSims == 3

MaxSample == 2

MeanValues == {NaN, Int2Rat(-1), Zero, Int2Rat(2), Int2Rat(5)}

SpreadValues == {NaN, Int2Rat(-1), Zero, Int2Rat(2), Int2Rat(3), Int2Rat(8)}

LineValues == {NaN, Zero, One, Rat(3, 2)}

\* A normal draw is any real; Poisson and negative-binomial draws are naturals.
NormalDraws == [1..NSims -> {Int2Rat(v) : v \in -1..MaxSample}]

CountDraws == [1..NSims -> {Int2Rat(v) : v \in 0..MaxSample}]

Estimators ==
    {"simulate_points_normal", "simulate_poisson", "simulate_nb_or_poisson",
     "nb_params_from_mean_var"}

InitEst ==
    /\ e_call \in [fn : Estimators, mean : MeanValues, spread : SpreadValues,
                    line : LineValues]
    /\ (e_call.fn = "simulate_poisson" => e_call.spread = NaN)
    /\ pc = "call"
    /\ e_out = Unknown([n |-> NotCalled, p |-> NotCalled])
    /\ MathIdle
    /\ SimIdle
    /\ CardIdle
    /\ PipeIdle

CallNormal ==
    /\ pc = "call"
    /\ pc' = "returned"
    /\ e_call.fn = "simulate_points_normal"
    /\ \E draws \in NormalDraws :
         e_out' = simulate_points_normal(e_call.mean, e_call.spread, e_call.line, draws)
    /\ UNCHANGED <<e_call, mathVars, simVars, cardVars, pipeVars>>

CallPoisson ==
    /\ pc = "call"
    /\ pc' = "returned"
    /\ e_call.fn = "simulate_poisson"
    /\ \E draws \in CountDraws :
         e_out' = simulate_poisson(e_call.mean, e_call.line, draws)
    /\ UNCHANGED <<e_call, mathVars, simVars, cardVars, pipeVars>>

CallNbOrPoisson ==
    /\ pc = "call"
    /\ pc' = "returned"
    /\ e_call.fn = "simulate_nb_or_poisson"
    /\ \E draws \in CountDraws :
         e_out' = simulate_nb_or_poisson(e_call.mean, e_call.spread, e_call.line, draws)
    /\ UNCHANGED <<e_call, mathVars, simVars, cardVars, pipeVars>>

CallNbParams ==
    /\ pc = "call"
    /\ pc' = "returned"
    /\ e_call.fn = "nb_params_from_mean_var"
    /\ e_out' = Unknown(nb_params_from_mean_var(e_call.mean, e_call.spread))
    /\ UNCHANGED <<e_call, mathVars, simVars, cardVars, pipeVars>>

NextEst == CallNormal \/ CallPoisson \/ CallNbOrPoisson \/ CallNbParams

SpecEst == InitEst /\ [][NextEst]_vars

Returned(fn) == pc = "returned" /\ e_call.fn = fn

BothUnknown == IsNaN(e_out.prob_over) /\ IsNaN(e_out.prob_under)

\* C6: an estimator called with a missing precondition returns (unknown, unknown)
\* and does not raise: the Normal one when mean, std or line is unknown or
\* mean <= 0 or std <= 0, the Poisson one when mean or line is unknown or
\* mean <= 0, the NB-or-Poisson one when mean, var or line is unknown or mean <= 0.
C6_MissingPreconditionUnknown ==
    /\ Returned("simulate_points_normal") =>
         ((\/ IsNaN(e_call.mean) \/ IsNaN(e_call.spread) \/ IsNaN(e_call.line)
           \/ Le(e_call.mean, Zero) \/ Le(e_call.spread, Zero)) => BothUnknown)
    /\ Returned("simulate_poisson") =>
         ((IsNaN(e_call.mean) \/ IsNaN(e_call.line) \/ Le(e_call.mean, Zero))
             => BothUnknown)
    /\ Returned("simulate_nb_or_poisson") =>
         ((\/ IsNaN(e_call.mean) \/ IsNaN(e_call.spread) \/ IsNaN(e_call.line)
           \/ Le(e_call.mean, Zero)) => BothUnknown)

SampleIndexes(P(_)) == {i \in 1..Len(e_out.samples) : P(e_out.samples[i])}

AboveLine(x) == Gt(x, e_call.line)

BelowLine(x) == Lt(x, e_call.line)

AtLine(x) == x = e_call.line

\* C7: whenever an estimator has drawn its samples, prob_over is the fraction of
\* samples strictly above the line and prob_under the fraction strictly below;
\* both are >= 0, their sum is <= 1, and the sum is 1 exactly when no sample
\* equals the line.
C7_StrictTailFractions ==
    (pc = "returned" /\ e_out.samples # <<>>) =>
        /\ e_out.prob_over = Rat(Cardinality(SampleIndexes(AboveLine)), Len(e_out.samples))
        /\ e_out.prob_under = Rat(Cardinality(SampleIndexes(BelowLine)), Len(e_out.samples))
        /\ Ge(e_out.prob_over, Zero)
        /\ Ge(e_out.prob_under, Zero)
        /\ Le(Add(e_out.prob_over, e_out.prob_under), One)
        /\ (Add(e_out.prob_over, e_out.prob_under) = One
               <=> SampleIndexes(AtLine) = {})

NoParams == e_out.params.n = None /\ e_out.params.p = None

\* C8: nb_params_from_mean_var(mean, var) is (none, none) exactly when mean <= 0
\* or var <= mean, and otherwise p = mean/var and n = mean^2/(var - mean); when
\* simulate_nb_or_poisson gets (none, none) from it, it samples from the Poisson
\* estimator with the same mean and not from the negative binomial.
C8_NbParamsAndFallback ==
    (pc = "returned" /\ e_out.params.n # NotCalled) =>
        /\ (IsNum(e_call.mean) /\ IsNum(e_call.spread)) =>
              /\ NoParams <=> (Le(e_call.mean, Zero) \/ Le(e_call.spread, e_call.mean))
              /\ ~NoParams =>
                    /\ Mul(e_out.params.p, e_call.spread) = e_call.mean
                    /\ Mul(e_out.params.n, Sub(e_call.spread, e_call.mean))
                           = Mul(e_call.mean, e_call.mean)
        /\ (e_call.fn = "simulate_nb_or_poisson" /\ NoParams) =>
              /\ e_out.dist = "poisson"
              /\ e_out.lam = e_call.mean
              /\ IsNum(e_out.prob_over)

\* C8 witness: simulate_nb_or_poisson(mean=5, var=3, line=1.5) got (none, none)
\* and sampled from the Poisson estimator with mean 5.
C8_Witness ==
    /\ Returned("simulate_nb_or_poisson")
    /\ e_call.mean = Int2Rat(5)
    /\ e_call.spread = Int2Rat(3)
    /\ e_call.line = Rat(3, 2)
    /\ NoParams
    /\ e_out.dist = "poisson"
    /\ e_out.lam = Int2Rat(5)

-----------------------------------------------------------------------------
(* SpecPortfolio: build_portfolio_v2.py run on a bounded evaluated batch.  *)

MaxRows == 2

EvalRow(player, market, side, model_prob, edge, ev, confidence, minutes) ==
    [player_name |-> player, market |-> market, side |-> side,
     model_prob |-> model_prob, edge |-> edge, ev_per_unit |-> ev,
     confidence |-> confidence, min_last10_mean |-> minutes]

\* Rows that meet every threshold, several of them exactly.
PassingRows ==
    {EvalRow(pl, "points", sd, Rat(55, 100), Rat(3, 100), ev, cf, Int2Rat(15)) :
        pl \in {"A", "B"}, sd \in {"over", "under"},
        ev \in {Rat(10, 100), Rat(25, 100)}, cf \in {Rat(5, 10), Rat(7, 10)}}
    \cup {EvalRow("A", "assists", "over", Rat(6, 10), Rat(5, 100), Rat(10, 100),
                  Rat(7, 10), Int2Rat(20)),
          EvalRow("A", "points", "push", Rat(6, 10), Rat(5, 100), Rat(10, 100),
                  Rat(7, 10), Int2Rat(20))}

\* Rows of the group (A, points, over) that miss exactly one threshold, by a
\* value just under it or by an unknown value.
FailingRows ==
    {EvalRow("A", "points", "over", mp, Rat(5, 100), Rat(25, 100), Rat(7, 10),
             Int2Rat(20)) : mp \in {NaN, Rat(54, 100)}}
    \cup {EvalRow("A", "points", "over", Rat(6, 10), ed, Rat(25, 100), Rat(7, 10),
                  Int2Rat(20)) : ed \in {NaN, Rat(2, 100)}}
    \cup {EvalRow("A", "points", "over", Rat(6, 10), Rat(5, 100), ev, Rat(7, 10),
                  Int2Rat(20)) : ev \in {NaN, Rat(1, 100)}}
    \cup {EvalRow("A", "points", "over", Rat(6, 10), Rat(5, 100), Rat(25, 100), cf,
                  Int2Rat(20)) : cf \in {NaN, Rat(49, 100)}}
    \cup {EvalRow("A", "points", "over", Rat(6, 10), Rat(5, 100), Rat(25, 100),
                  Rat(7, 10), mn) : mn \in {NaN, Int2Rat(14)}}

RowKinds == PassingRows \cup FailingRows

\* The row with its index label.
Indexed(r, i) ==
    [player_name |-> r.player_name, market |-> r.market, side |-> r.side,
     model_prob |-> r.model_prob, edge |-> r.edge, ev_per_unit |-> r.ev_per_unit,
     confidence |-> r.confidence, min_last10_mean |-> r.min_last10_mean, idx |-> i]

WithIndex(frame) == [i \in 1..Len(frame) |-> Indexed(frame[i], i - 1)]

ColumnSets ==
    {[confidence |-> TRUE, min_last10_mean |-> TRUE],
     [confidence |-> FALSE, min_last10_mean |-> TRUE],
     [confidence |-> TRUE, min_last10_mean |-> FALSE]}

\* A frame without a column has no cell in it: the record's field is unknown.
InitPortfolio ==
    /\ pc = "loaded"
    /\ \E n \in 0..MaxRows : \E f \in [1..n -> RowKinds] : df = WithIndex(f)
    /\ cols \in ColumnSets
    /\ \A i \in 1..Len(df) :
          /\ ~cols.confidence => IsNaN(df[i].confidence)
          /\ ~cols.min_last10_mean => IsNaN(df[i].min_last10_mean)
    /\ out = <<>>
    /\ filtered = <<>>
    /\ final = <<>>
    /\ MathIdle
    /\ EstIdle
    /\ SimIdle
    /\ PipeIdle

NextPortfolio == FilterProps \/ PickCard

SpecPortfolio == InitPortfolio /\ [][NextPortfolio]_vars

Filtered == pc \in {"filtered", "picked", "raised"}

RowsOf(frame) == {frame[i] : i \in 1..Len(frame)}

\* A cell that is a number and at least the threshold.
AtLeast(cell, num, den) == IsNum(cell) /\ cell[1] * den >= num * cell[2]

MeetsThresholds(row) ==
    /\ AtLeast(row.model_prob, 55, 100)
    /\ AtLeast(row.edge, 3, 100)
    /\ AtLeast(row.ev_per_unit, 2, 100)
    /\ cols.confidence /\ AtLeast(row.confidence, 5, 10)
    /\ cols.min_last10_mean /\ AtLeast(row.min_last10_mean, 15, 1)

GroupOf(frame, row) == {i \in 1..Len(frame) : SameKey(frame[i], row)}

\* C2: after filter_props_v2, every (player_name, market, side) group of the rows
\* that passed the thresholds has exactly one row left, a row of that group
\* whose ev_per_unit is the group's maximum.
C2_DedupKeepsMaxEv ==
    Filtered =>
        /\ RowsOf(filtered) \subseteq RowsOf(out)
        /\ \A i \in 1..Len(out) :
              /\ Cardinality(GroupOf(filtered, out[i])) = 1
              /\ \A k \in GroupOf(filtered, out[i]) :
                    ~Lt(filtered[k].ev_per_unit, out[i].ev_per_unit)

\* C2 witness: two passing rows for (A, points, over) with ev 0.10 then 0.25; only
\* the 0.25 row is left.
C2_Witness ==
    /\ pc = "filtered"
    /\ Len(out) = 2
    /\ SameKey(out[1], out[2])
    /\ out[1].player_name = "A" /\ out[1].market = "points" /\ out[1].side = "over"
    /\ out[1].ev_per_unit = Rat(10, 100)
    /\ out[2].ev_per_unit = Rat(25, 100)
    /\ filtered = <<out[2]>>

\* C17: every row of the final portfolio pick_card_v2(filter_props_v2(batch)) is a
\* row of the batch that meets all five thresholds, its side is over or under,
\* and no two rows of the final portfolio share (player_name, market, side).
C17_FinalPortfolioSound ==
    pc = "picked" =>
        \A k \in 1..Len(final) :
            /\ final[k] \in RowsOf(df)
            /\ MeetsThresholds(final[k])
            /\ final[k].side \in {"over", "under"}
            /\ \A l \in 1..Len(final) : l # k => ~SameKey(final[k], final[l])

\* C17 witness: of two rows that meet the thresholds, one with side "push" and one
\* with side "under", only the second is in the final portfolio.
C17_Witness ==
    /\ pc = "picked"
    /\ Len(df) = 2
    /\ MeetsThresholds(df[1]) /\ df[1].side = "push"
    /\ MeetsThresholds(df[2]) /\ df[2].side = "under"
    /\ final = <<df[2]>>

-----------------------------------------------------------------------------
(* SpecCard: pick_card_v2 on candidate pools large enough to reach the caps. *)

MaxOvers == 20

MaxUnders == 7

ConfLevels == <<Rat(5, 10), Rat(6, 10), Rat(7, 10)>>

EvLevels == <<Rat(10, 100), Rat(25, 100)>>

\* A pool as filter_props_v2 returns it: one row per player, in descending order
\* of player_name, every row passing the thresholds.  Row i is an over or an
\* under by the layout; its confidence and ev_per_unit follow the two patterns.
PoolSide(i, n_over, n_under, layout) ==
    IF layout = "overs_first"
    THEN (IF i <= n_over THEN "over" ELSE "under")
    ELSE IF layout = "unders_first"
    THEN (IF i <= n_under THEN "under" ELSE "over")
    ELSE IF i <= 2 * n_under /\ i % 2 = 0 THEN "under"
    ELSE IF i <= 2 * n_under /\ (i + 1) \div 2 > n_over THEN "under"
    ELSE IF i > 2 * n_under /\ i - n_under > n_over THEN "under"
    ELSE "over"

Pool(n_over, n_under, layout, a, b, c, d) ==
    [i \in 1..(n_over + n_under) |->
        Indexed(EvalRow(StrOrder[n_over + n_under + 1 - i], "points",
                        PoolSide(i, n_over, n_under, layout),
                        Rat(55, 100), Rat(3, 100),
                        EvLevels[((c * i + d) % Len(EvLevels)) + 1],
                        ConfLevels[((a * i + b) % Len(ConfLevels)) + 1],
                        Int2Rat(15)), i - 1)]

Layouts == {"overs_first", "unders_first", "mixed"}

InitCard ==
    /\ pc = "filtered"
    /\ \E n_over \in 0..MaxOvers, n_under \in 0..MaxUnders, layout \in Layouts,
          a \in 0..2, b \in 0..2, c \in 0..1, d \in 0..1 :
          filtered = Pool(n_over, n_under, layout, a, b, c, d)
    /\ df = filtered
    /\ out = filtered
    /\ cols = [confidence |-> TRUE, min_last10_mean |-> TRUE]
    /\ final = <<>>
    /\ MathIdle
    /\ EstIdle
    /\ SimIdle
    /\ PipeIdle

NextCard == PickCard

SpecCard == InitCard /\ [][NextCard]_vars

Smaller(m, n) == IF m < n THEN m ELSE n

\* (confidence desc, ev_per_unit desc): r may stand before s.
RankedNotAfter(r, s) ==
    \/ Gt(r.confidence, s.confidence)
    \/ r.confidence = s.confidence /\ Ge(r.ev_per_unit, s.ev_per_unit)

SideIndexes(frame, side) == {i \in 1..Len(frame) : frame[i].side = side}

\* The rows of one side in the card are `cap` rows of that side's pool, or the
\* whole pool when it is smaller, no row twice, and no row left out ranks
\* strictly before a row taken.
TopOfPool(side, cap) ==
    LET taken == {final[i] : i \in SideIndexes(final, side)}
        pool  == {filtered[i] : i \in SideIndexes(filtered, side)}
    IN  /\ Cardinality(SideIndexes(final, side))
              = Smaller(Cardinality(SideIndexes(filtered, side)), cap)
        /\ Cardinality(taken) = Cardinality(SideIndexes(final, side))
        /\ taken \subseteq pool
        /\ \A r \in taken : \A q \in pool \ taken : RankedNotAfter(r, q)
        /\ \A i, j \in SideIndexes(final, side) :
              i < j => RankedNotAfter(final[i], final[j])

\* C3: pick_card_v2 returns, per side, exactly the first min(pool size, cap) rows
\* of that side's pool in (confidence desc, ev_per_unit desc) order, cap = 12 for
\* overs and 6 for unders; the fallback re-take never yields more than the pool
\* holds, and 20 overs with 2 unders give 12 overs and 2 unders.
C3_TopPerSide ==
    pc = "picked" =>
        /\ TopOfPool("over", 12)
        /\ TopOfPool("under", 6)
        /\ RowsOf(final) \subseteq RowsOf(filtered)
        /\ (Cardinality(SideIndexes(filtered, "over")) = 20
                /\ Cardinality(SideIndexes(filtered, "under")) = 2)
             => (Cardinality(SideIndexes(final, "over")) = 12
                    /\ Cardinality(SideIndexes(final, "under")) = 2)

\* C3 witness: a pool of 20 overs and 2 unders was picked from, and the card has
\* 12 overs and 2 unders.
C3_Witness ==
    /\ pc = "picked"
    /\ Cardinality(SideIndexes(filtered, "over")) = 20
    /\ Cardinality(SideIndexes(filtered, "under")) = 2
    /\ Cardinality(SideIndexes(final, "over")) = 12
    /\ Cardinality(SideIndexes(final, "under")) = 2
    /\ Len(final) = 14

\* C4: the card is ordered by (confidence desc, ev_per_unit desc) across overs and
\* unders together: of two adjacent rows the first has the higher confidence, or
\* the same confidence and an ev_per_unit at least as high.
C4_CardSorted ==
    pc = "picked" =>
        \A i \in 1..(Len(final) - 1) :
            \/ Gt(final[i].confidence, final[i + 1].confidence)
            \/ /\ final[i].confidence = final[i + 1].confidence
               /\ Ge(final[i].ev_per_unit, final[i + 1].ev_per_unit)

\* C4 witness: a card in which an under stands before an over and an over before
\* an under, with different confidences.
C4_Witness ==
    /\ pc = "picked"
    /\ \E i, j \in 1..(Len(final) - 1) :
          /\ final[i].side = "under" /\ final[i + 1].side = "over"
          /\ final[j].side = "over" /\ final[j + 1].side = "under"
          /\ Gt(final[i].confidence, final[i + 1].confidence)
          /\ Gt(final[j].confidence, final[j + 1].confidence)

-----------------------------------------------------------------------------
(* SpecSim: run_simulations_v2 on a bounded batch of feature rows, then    *)
(* build_portfolio_v2 on its result.                                       *)

MaxBatch == 2

\* The draws of one call, up to their order: the tail fractions do not depend
\* on the order in which the n_sims samples were drawn.
SimNormalDraws == {d \in NormalDraws : \A i \in 1..(NSims - 1) : Le(d[i], d[i + 1])}

SimCountDraws == {d \in CountDraws : \A i \in 1..(NSims - 1) : Le(d[i], d[i + 1])}

\* A feature row whose own category (the one its market selects) has the given
\* mean and std; the other categories hold fixed, different statistics.
FeatureRow(player, market, side, line, odds, mean, std, pace, defense, minutes) ==
    LET own == Lower(market)
    IN  [player_name |-> player, market |-> market, side |-> side, line |-> line,
         odds |-> odds,
         pts_last10_mean |-> IF own = "points" THEN mean ELSE Int2Rat(9),
         pts_last10_std  |-> IF own = "points" THEN std ELSE Int2Rat(2),
         ast_last10_mean |-> IF own = "assists" THEN mean ELSE Int2Rat(6),
         ast_last10_std  |-> IF own = "assists" THEN std ELSE Int2Rat(2),
         reb_last10_mean |-> IF own = "rebounds" THEN mean ELSE Int2Rat(7),
         reb_last10_std  |-> IF own = "rebounds" THEN std ELSE Int2Rat(2),
         fg3_last10_mean |-> IF own = "threes" THEN mean ELSE Int2Rat(3),
         fg3_last10_std  |-> IF own = "threes" THEN std ELSE One,
         pace_factor |-> pace, defense_factor |-> defense,
         min_last10_mean |-> minutes]

Markets == {"points", "assists", "rebounds", "threes", "steals", "Points"}

\* line, odds, pace_factor and min_last10_mean of a row: one known combination
\* and its variations, every line and odds to go with an unknown mean, and a
\* zero mean and a zero std (a player whose ten games all had the same count).
Contexts ==
    {<<Rat(3, 2), Int2Rat(150), One, Int2Rat(30)>>,
     <<NaN, Int2Rat(150), One, Int2Rat(30)>>,
     <<Rat(3, 2), NaN, One, Int2Rat(30)>>,
     <<Rat(3, 2), Zero, One, Int2Rat(30)>>,
     <<Rat(3, 2), Int2Rat(-110), One, Int2Rat(30)>>,
     <<Rat(3, 2), Int2Rat(150), Int2Rat(2), Int2Rat(30)>>,
     <<Rat(3, 2), Int2Rat(150), One, NaN>>,
     <<Rat(3, 2), Int2Rat(150), One, Int2Rat(40)>>}

OddsOfFeed == {NaN, Zero, Int2Rat(-110), Int2Rat(150)}

FeatureRows ==
    {FeatureRow("A", market, side, c[1], c[2], mean, std, c[3], One, c[4]) :
        market \in Markets, side \in {"over", "under"}, c \in Contexts,
        mean \in {NaN, Int2Rat(2)}, std \in {NaN, One, Int2Rat(2)}}
    \cup
    {FeatureRow("A", market, side, line, odds, NaN, std, One, One, Int2Rat(30)) :
        market \in Markets, side \in {"over", "under"},
        line \in {NaN, Rat(3, 2)}, odds \in OddsOfFeed, std \in {NaN, Int2Rat(2)}}
    \cup
    {FeatureRow("A", market, side, Rat(3, 2), Int2Rat(150), mean, std, One, One,
                Int2Rat(30)) :
        market \in Markets, side \in {"over", "under"},
        mean \in {Zero, Int2Rat(2)}, std \in {NaN, Zero, Int2Rat(2)}}

\* The props that follow the first one in a batch: one of a market without a
\* baseline, one whose ten-game mean is missing.
FollowerRows ==
    {FeatureRow("B", "steals", "under", Rat(3, 2), Int2Rat(-110), Int2Rat(2),
                Int2Rat(2), One, One, Int2Rat(30)),
     FeatureRow("C", "points", "over", Rat(3, 2), Int2Rat(150), NaN,
                NaN, One, One, Int2Rat(30))}

\* The frame build_portfolio_v2 reads has every column run_simulations_v2 writes.
InitSim ==
    /\ pc = "simulate"
    /\ \E first \in FeatureRows, n \in 0..(MaxBatch - 1) :
          \E rest \in [1..n -> FollowerRows] : df_features = <<first>> \o rest
    /\ rows = <<>>
    /\ sim_log = <<>>
    /\ MathIdle
    /\ EstIdle
    /\ CardIdle
    /\ PipeIdle

\* Lines 107-109 skip the estimators, and so draw nothing, when the adjusted mean
\* or the line is unknown; otherwise the estimator called draws n_sims samples.
DrawsFor(row, mean) ==
    IF IsNaN(mean) \/ IsNaN(row.line) THEN {<<>>}
    ELSE IF row.market = "points" THEN SimNormalDraws
    ELSE SimCountDraws

\* One iteration of the loop of run_simulations_v2; after the last row the
\* function returns the frame, which build_portfolio_v2 loads.  An exception
\* ends the run.
SimulateRow ==
    /\ pc = "simulate"
    /\ Len(rows) < Len(df_features)
    /\ LET row == df_features[Len(rows) + 1]
           mv == get_adjusted_mean_and_var(row)
       IN  \E draws \in DrawsFor(row, mv.mean) :
             LET outrow == simulate_row(row, draws, NSims, Len(rows))
             IN  IF RowRaised(outrow)
                 THEN /\ pc' = "raised"
                      /\ UNCHANGED <<rows, sim_log, df>>
                 ELSE /\ rows' = Append(rows, outrow)
                      /\ sim_log' = Append(sim_log,
                             run_estimator(row, mv.mean, mv.var, draws))
                      /\ IF Len(rows') = Len(df_features)
                         THEN pc' = "loaded" /\ df' = rows'
                         ELSE pc' = "simulate" /\ UNCHANGED df
    /\ UNCHANGED <<df_features, cols, out, filtered, final, mathVars, estVars, pipeVars>>

NextSim == SimulateRow \/ FilterProps \/ PickCard

SpecSim == InitSim /\ [][NextSim]_vars

BaseMeanUnknown(row) == IsNaN(base_stats(row).mean)

\* C5: every prop whose base mean for its market is unknown gets model_prob, edge
\* and ev_per_unit all unknown from run_simulations_v2, whatever its odds, line
\* and side, and filter_props_v2 never keeps its row.
C5_UnknownMeanPropagates ==
    \A j \in 1..Len(rows) :
        BaseMeanUnknown(df_features[j]) =>
            /\ IsNaN(rows[j].model_prob)
            /\ IsNaN(rows[j].edge)
            /\ IsNaN(rows[j].ev_per_unit)
            /\ Filtered =>
                  /\ \A k \in 1..Len(out) : out[k].idx # rows[j].idx
                  /\ \A k \in 1..Len(filtered) : filtered[k].idx # rows[j].idx

\* C5 witness: a batch whose first prop is kept by the filter and whose second
\* prop has known odds, line and minutes but an unknown points mean, and is not
\* kept.
C5_Witness ==
    /\ pc = "filtered"
    /\ Len(rows) = 2
    /\ df_features[2].market = "points"
    /\ IsNaN(df_features[2].pts_last10_mean)
    /\ df_features[2].odds = Int2Rat(150)
    /\ df_features[2].line = Rat(3, 2)
    /\ df_features[2].min_last10_mean = Int2Rat(30)
    /\ IsNaN(rows[2].ev_per_unit)
    /\ Len(filtered) = 1
    /\ filtered[1].idx = 0

\* The market strings for which get_adjusted_mean_and_var selects a baseline.
Recognised(market) ==
    Lower(market) \in {"points", "assists", "rebounds",
                       "threes_made", "three-pointers-made", "threes"}

UnrecognisedAt(j) == ~Recognised(df_features[j].market)

\* C11 as stated: a prop of an unrecognised market gets model_prob, implied_prob,
\* edge and ev_per_unit all unknown.
C11_Original ==
    \A j \in 1..Len(rows) :
        UnrecognisedAt(j) =>
            /\ IsNaN(rows[j].model_prob)
            /\ IsNaN(rows[j].implied_prob)
            /\ IsNaN(rows[j].edge)
            /\ IsNaN(rows[j].ev_per_unit)

\* C11 amended: evaluating a prop of an unrecognised market never raises; its
\* model_prob, edge and ev_per_unit are unknown, while its implied_prob is the
\* implied probability of its odds, unknown only when the odds are unknown; the
\* other props of the batch with a known positive adjusted mean and a known line
\* still get a known model_prob.
C11_UnrecognisedMarketUnknown ==
    /\ \A j \in 1..Len(rows) :
          UnrecognisedAt(j) =>
              /\ IsNaN(rows[j].model_prob)
              /\ IsNaN(rows[j].edge)
              /\ IsNaN(rows[j].ev_per_unit)
              /\ rows[j].implied_prob = american_to_implied_prob(df_features[j].odds)
              /\ IsNaN(rows[j].implied_prob) <=> IsNaN(df_features[j].odds)
    /\ pc = "raised" => ~UnrecognisedAt(Len(rows) + 1)
    /\ \A j \in 1..Len(rows) :
          /\ \E k \in 1..Len(df_features) : UnrecognisedAt(k)
          /\ ~UnrecognisedAt(j)
          /\ Gt(rows[j].adj_mean, Zero)
          /\ ~IsNaN(rows[j].line)
          => IsNum(rows[j].model_prob)

\* C11 witness: a finished batch whose first prop got a known model_prob and whose
\* second prop, of the market "steals", got an unknown model_prob and the implied
\* probability of its odds.
C11_Witness ==
    /\ pc = "loaded"
    /\ Len(rows) = 2
    /\ IsNum(rows[1].model_prob)
    /\ rows[2].market = "steals"
    /\ IsNaN(rows[2].model_prob)
    /\ rows[2].implied_prob = Rat(110, 210)

\* The estimator that produced a logged outcome: simulate_nb_or_poisson is the
\* only one that calls nb_params_from_mean_var.
EstimatorRun(est) ==
    IF est.dist = "none" THEN "none"
    ELSE IF est.dist = "normal" THEN "simulate_points_normal"
    ELSE IF est.params.n # NotCalled THEN "simulate_nb_or_poisson"
    ELSE "simulate_poisson"

\* The estimator the specification assigns to the category of a baseline.
MatchingEstimator(category) ==
    IF category = "points" THEN "simulate_points_normal"
    ELSE IF category \in {"assists", "rebounds"} THEN "simulate_nb_or_poisson"
    ELSE "simulate_poisson"

\* C12: whenever an estimator is run for a prop it is the one matching the
\* category whose baseline statistics were selected (points: Normal, assists and
\* rebounds: NB-or-Poisson, threes: Poisson), and model_prob is the over tail for
\* side over and the under tail for side under.
C12_EstimatorMatchesBaseline ==
    \A j \in 1..Len(rows) :
        EstimatorRun(sim_log[j]) # "none" =>
            /\ EstimatorRun(sim_log[j]) = MatchingEstimator(Lower(df_features[j].market))
            /\ rows[j].side = "over" => rows[j].model_prob = sim_log[j].prob_over
            /\ rows[j].side = "under" => rows[j].model_prob = sim_log[j].prob_under

\* The three components of the confidence of an output row, as specified.
ProbComponent(r) == IF IsNaN(r.model_prob) THEN Zero ELSE r.model_prob

EdgeComponent(r) ==
    IF IsNaN(r.edge) THEN Zero
    ELSE IF Lt(r.edge, Zero) THEN Sub(Zero, r.edge)
    ELSE r.edge

MinutesComponent(r) ==
    IF IsNaN(r.min_last10_mean) THEN Zero
    ELSE IF Lt(r.min_last10_mean, Int2Rat(36)) THEN Rat(r.min_last10_mean[1], r.min_last10_mean[2] * 36)
    ELSE One

\* C13: for every evaluated prop, three times the confidence is prob_component +
\* edge_component + minutes_component (model_prob, |edge| and min(minutes/36, 1),
\* each 0 when unknown), and the confidence is a defined value in [0,1].
C13_ConfidenceFormulaBounded ==
    \A j \in 1..Len(rows) :
        /\ IsNum(rows[j].confidence)
        /\ Mul(Int2Rat(3), rows[j].confidence) =
              Add(Add(ProbComponent(rows[j]), EdgeComponent(rows[j])),
                  MinutesComponent(rows[j]))
        /\ Ge(rows[j].confidence, Zero)
        /\ Le(rows[j].confidence, One)

\* C13 witness: an evaluated prop with a known model_prob, a negative edge and
\* capped minutes, and one whose components are all unknown.
C13_Witness ==
    /\ Len(rows) = 2
    /\ Lt(rows[1].edge, Zero)
    /\ Gt(rows[1].min_last10_mean, Int2Rat(36))
    /\ Gt(rows[1].confidence, Rat(1, 3))
    /\ IsNaN(rows[2].model_prob)
    /\ IsNaN(rows[2].edge)

\* The columns run_simulations_v2 adds to a row.
AddedColumns ==
    {"adj_mean", "adj_var", "model_prob", "implied_prob", "edge", "ev_per_unit",
     "confidence", "n_sims"}

SimReturned == pc \in {"loaded", "filtered", "picked"}

\* C14: run_simulations_v2 never raises, whatever the fields of a prop are, and
\* the frame it returns has one row per input prop, in input order, each with the
\* input row's fields unchanged and the eight added columns.
C14_OneRowPerProp ==
    /\ pc # "raised"
    /\ SimReturned =>
          /\ Len(df) = Len(df_features)
          /\ \A j \in 1..Len(df) :
                /\ \A f \in DOMAIN df_features[j] : df[j][f] = df_features[j][f]
                /\ AddedColumns \subseteq DOMAIN df[j]
                /\ df[j].idx = j - 1

VarianceUnusable(r) == IsNaN(r.adj_var) \/ Le(r.adj_var, Zero)

\* C16: model_prob is defined exactly when the adjusted mean is defined and > 0 and
\* the line is defined, whatever the adjusted variance is; with an unknown or
\* non-positive variance the Normal estimator still gets a usable std (all its
\* samples are numbers) and the NB-or-Poisson estimator gets var = adj_mean + 1.
C16_VarianceFallback ==
    \A j \in 1..Len(rows) :
        /\ IsNum(rows[j].model_prob) <=>
              (Gt(rows[j].adj_mean, Zero) /\ ~IsNaN(rows[j].line))
        /\ IsNum(rows[j].model_prob) /\ VarianceUnusable(rows[j]) =>
              /\ rows[j].market = "points" =>
                    /\ sim_log[j].dist = "normal"
                    /\ \A i \in 1..Len(sim_log[j].samples) : IsNum(sim_log[j].samples[i])
              /\ rows[j].market \in {"assists", "rebounds"} =>
                    sim_log[j].params =
                        nb_params_from_mean_var(rows[j].adj_mean,
                                                Add(rows[j].adj_mean, One))

\* C16 witness: a points prop with a known positive adjusted mean, a known line and
\* an unknown adjusted variance got a known, positive model_prob from samples.
C16_Witness ==
    /\ Len(rows) >= 1
    /\ rows[1].market = "points"
    /\ IsNaN(rows[1].adj_var)
    /\ Gt(rows[1].adj_mean, Zero)
    /\ IsNum(rows[1].model_prob)
    /\ Gt(rows[1].model_prob, Zero)
    /\ Len(sim_log[1].samples) = NSims

-----------------------------------------------------------------------------
(* run_pipeline_v2.py: the pipeline runner.                                *)

\* The steps of main, in the order of the list it builds.
Steps ==
    <<[name |-> "Fetch odds", script |-> "fetch_odds.py"],
      [name |-> "Clean odds", script |-> "clean_odds.py"],
      [name |-> "Build features (v2)", script |-> "build_features_v2.py"],
      [name |-> "Run simulations (v2)", script |-> "run_simulations_v2.py"],
      [name |-> "Build portfolio (v2)", script |-> "build_portfolio_v2.py"],
      [name |-> "Export Excel cards (v2)", script |-> "build_excel_card_v2.py"]>>

NotFetch(s) == s.script # "fetch_odds.py"

\* Lines 79-80: --skip-fetch removes the fetch step from the list.
StepsToRun(skip) == IF skip THEN SelectSeq(Steps, NotFetch) ELSE Steps

\* require_files: some script of the list does not exist.
MissingFiles(steps, on_disk) == \E i \in 1..Len(steps) : steps[i].script \notin on_disk

\* Mutant: only a positive return code fails the step.
StepFailed_positive(returncode) == returncode > 0

\* Line 54.
StepFailed(returncode) == returncode # 0

MaxExitCode == 2

\* A return code of subprocess.run: negative when a signal ended the step.
ExitCodes == -1..MaxExitCode

Scripts == {Steps[i].script : i \in 1..Len(Steps)}

InitPipeline ==
    /\ pc = "main"
    /\ skip_fetch \in BOOLEAN
    /\ present \in SUBSET Scripts
    /\ started = <<>>
    /\ exits = <<>>
    /\ ret = -1
    /\ MathIdle
    /\ EstIdle
    /\ SimIdle
    /\ CardIdle

\* main up to line 87: the list is built and require_files checks it; a missing
\* script raises FileNotFoundError, which the handler of line 92 turns into 1.
RequireFiles ==
    /\ pc = "main"
    /\ IF MissingFiles(StepsToRun(skip_fetch), present)
       THEN pc' = "returned" /\ ret' = 1
       ELSE pc' = "pipeline" /\ UNCHANGED ret
    /\ UNCHANGED <<skip_fetch, present, started, exits,
                   mathVars, estVars, simVars, cardVars>>

\* run_step up to the call of subprocess.run: the next step of the list starts.
StartStep ==
    /\ pc = "pipeline"
    /\ Len(exits) < Len(StepsToRun(skip_fetch))
    /\ started' = Append(started, StepsToRun(skip_fetch)[Len(exits) + 1].name)
    /\ pc' = "step"
    /\ UNCHANGED <<skip_fetch, present, exits, ret,
                   mathVars, estVars, simVars, cardVars>>

\* The step exits: a failure raises RuntimeError and main returns 1; after the
\* last step main returns 0; otherwise the loop goes on.
StepExit ==
    /\ pc = "step"
    /\ \E returncode \in ExitCodes :
          /\ exits' = Append(exits, returncode)
          /\ IF StepFailed(returncode)
             THEN pc' = "returned" /\ ret' = 1
             ELSE IF Len(exits') = Len(StepsToRun(skip_fetch))
             THEN pc' = "returned" /\ ret' = 0
             ELSE pc' = "pipeline" /\ UNCHANGED ret
    /\ UNCHANGED <<skip_fetch, present, started,
                   mathVars, estVars, simVars, cardVars>>

NextPipeline == RequireFiles \/ StartStep \/ StepExit

SpecPipeline == InitPipeline /\ [][NextPipeline]_vars

Names(steps) == [i \in 1..Len(steps) |-> steps[i].name]

IsPrefix(p, q) == Len(p) <= Len(q) /\ \A i \in 1..Len(p) : p[i] = q[i]

\* A step is started only after every earlier step has exited with code 0, and
\* after the first non-zero exit nothing is started and main has returned 1.
StopsAtFirstFailure ==
    /\ Len(exits) <= Len(started)
    /\ Len(started) <= Len(exits) + 1
    /\ \A i \in 1..Len(started) : \A k \in 1..(i - 1) : exits[k] = 0
    /\ \A k \in 1..Len(exits) :
          exits[k] # 0 => Len(started) = k /\ pc = "returned" /\ ret = 1

\* C15 as stated: the steps started are a prefix of the six listed steps, every
\* step starts only after all earlier ones exited 0, the first non-zero exit ends
\* the run with 1, and main returns 0 only if all six steps ran and exited 0.
C15_Original ==
    /\ IsPrefix(started, Names(Steps))
    /\ StopsAtFirstFailure
    /\ ret = 0 => started = Names(Steps) /\ exits = [i \in 1..Len(Steps) |-> 0]

\* C15 amended: the same with the list of steps to run, which is the six listed
\* steps, or the five after "Fetch odds" when --skip-fetch is given.
C15_PipelineOrder ==
    /\ IsPrefix(started, Names(StepsToRun(skip_fetch)))
    /\ StopsAtFirstFailure
    /\ ret \in {-1, 0, 1}
    /\ ret = 0 => /\ started = Names(StepsToRun(skip_fetch))
                  /\ exits = [i \in 1..Len(started) |-> 0]

\* C15 witness: with --skip-fetch the third step run, the simulations, is ended by
\* a signal after two steps exited 0, and main returned 1.
C15_Witness ==
    /\ pc = "returned"
    /\ skip_fetch
    /\ started = <<"Clean odds", "Build features (v2)", "Run simulations (v2)">>
    /\ exits = <<0, 0, -1>>
    /\ ret = 1

-----------------------------------------------------------------------------
(* SpecMath: the market converter called on bounded inputs.                *)

MaxOdds == 120

ProbDen == 4

MaxCalls == 2

OddsValues == {Int2Rat(o) : o \in -MaxOdds..MaxOdds} \cup {NaN}

WinProbs(odds) ==
    {Rat(k, ProbDen) : k \in 0..ProbDen} \cup {american_to_implied_prob(odds), NaN}

InitMath ==
    /\ m_odds \in OddsValues
    /\ m_calls = <<>>
    /\ pc = "math"
    /\ EstIdle
    /\ SimIdle
    /\ CardIdle
    /\ PipeIdle

CallImpliedProb ==
    /\ Len(m_calls) < MaxCalls
    /\ m_calls' = Append(m_calls,
            [fn |-> "american_to_implied_prob", win_prob |-> NaN,
             out |-> american_to_implied_prob(m_odds)])
    /\ UNCHANGED <<pc, m_odds, estVars, simVars, cardVars, pipeVars>>

CallExpectedValue ==
    /\ Len(m_calls) < MaxCalls
    /\ \E p \in WinProbs(m_odds) :
         m_calls' = Append(m_calls,
            [fn |-> "expected_value_per_unit", win_prob |-> p,
             out |-> expected_value_per_unit(m_odds, p)])
    /\ UNCHANGED <<pc, m_odds, estVars, simVars, cardVars, pipeVars>>

NextMath == CallImpliedProb \/ CallExpectedValue

SpecMath == InitMath /\ [][NextMath]_vars

ImpliedCalls == {i \in 1..Len(m_calls) : m_calls[i].fn = "american_to_implied_prob"}

EVCalls == {i \in 1..Len(m_calls) : m_calls[i].fn = "expected_value_per_unit"}

Half == Rat(1, 2)

InOpenUnit(x) == Gt(x, Zero) /\ Lt(x, One)

\* C9 as stated: for every integer odds o, 0 included, american_to_implied_prob(o)
\* lies strictly between 0 and 1, and it is 0.5 at o = 100 and at o = -100.
C9_Original ==
    \A i \in ImpliedCalls :
        IsNum(m_odds) =>
            /\ InOpenUnit(m_calls[i].out)
            /\ (m_odds \in {Int2Rat(100), Int2Rat(-100)} => m_calls[i].out = Half)

\* C9 amended: for every non-zero integer odds o (values between -100 and 100
\* included) american_to_implied_prob(o) lies strictly between 0 and 1; at o = 0
\* it returns 0; it is 0.5 at o = 100 and at o = -100.
C9_ImpliedProbRange ==
    \A i \in ImpliedCalls :
        IsNum(m_odds) =>
            /\ (m_odds # Zero => InOpenUnit(m_calls[i].out))
            /\ (m_odds = Zero => m_calls[i].out = Zero)
            /\ (m_odds \in {Int2Rat(100), Int2Rat(-100)} => m_calls[i].out = Half)

\* C9 witness: the converter was called with odds strictly between -100 and 0
\* and returned a value strictly between 0 and 1.
C9_Witness ==
    \E i \in ImpliedCalls :
        /\ m_odds = Int2Rat(-50)
        /\ m_calls[i].out = Rat(1, 3)

=============================================================================
